---- MODULE Spec2Model ----
(***************************************************************************)
(* The NBA data loader (NBALoader) and the SQLite store it fills.          *)
(*                                                                         *)
(* Two loaders live in the repository and write the same database file:    *)
(*   - src/src/data/load_data.py, the loader update_data.py imports;       *)
(*   - src/load_data.py, the stand-alone loader (names start with Legacy). *)
(*                                                                         *)
(* A behaviour is one driver configuration run again and again: the        *)
(* driver keeps one loader call active, with constant arguments (PLAYERS,  *)
(* SEASONS), so `op` and `args` are drawn in Init and then kept, while the *)
(* database file found at start-up is any of InitStores.  Every fetch      *)
(* operation reads and writes the one table Target(op, args) names.        *)
(*                                                                         *)
(* The remote provider (nba_api) and pandas/sqlite3 are outside the        *)
(* repository.  The remote is an arbitrary choice, per call, between an    *)
(* exception, an operator interrupt and a frame of 0..MaxRows rows.        *)
(* pandas is modelled by what it does on a sqlite3 connection:             *)
(*   - pd.read_sql wraps every failure of the query (no such table, no     *)
(*     such column) in pandas.errors.DatabaseError, a subclass of OSError  *)
(*     and not of sqlite3.Error;                                           *)
(*   - DataFrame.to_sql creates a missing table with the frame's columns,  *)
(*     appends into an existing one (failing when the frame has a column   *)
(*     the table lacks), and in replace mode drops and recreates it.       *)
(***************************************************************************)
EXTENDS Integers, Sequences, FiniteSets, TLC

\* ------------------------------------------------------------ bounds
\* config.MAX_ERROR_TIMES, imported at src/src/data/load_data.py:15; the
\* value is configuration, so it is a bound of the model.
MAX_ERROR_TIMES == 1
\* Longest caller-supplied identity list.
MaxLen == 2
\* Most rows the remote returns for one identity.
MaxRows == 1
\* Most rows a table holds when _save_to_sqlite is called directly.
MaxStoreRows == 3
\* Longest game_ids list of the error-budget runs (SpecBudget): room for a
\* payload, the failures that use up the budget, and a rest never called.
MaxGameIds == 3
\* Largest configured error budget of the budget-counting runs
\* (SpecConsecutive), and the longest game_ids list of those runs.
MaxBudget == 2
MaxTodo == 4
\* Most (player, season) pairs of the call-order runs (SpecOrder).
MaxPairs == 4
\* Most rows of the frame the clutch analyzer's query returns (SpecClutch).
MaxPbpRows == 2

\* ------------------------------------------------------------ universe
Players == {"p1", "p2"}
Games == {"g1", "g2"}
Seasons == {"s1", "s2"}

Tables == {"player_info", "player_stats", "game_log", "player_game_log", "game_pbp"}

\* All sequences over S of length at most n.
SeqsUpTo(S, n) == UNION {[1..k -> S] : k \in 0..n}

\* f"{category}_{table_name}"
FullTableName(category, table_name) ==
  CASE category = "player" /\ table_name = "info" -> "player_info"
    [] category = "player" /\ table_name = "stats" -> "player_stats"
    [] category = "player" /\ table_name = "game_log" -> "player_game_log"
    [] category = "game" /\ table_name = "log" -> "game_log"
    [] category = "game" /\ table_name = "pbp" -> "game_pbp"

\* The columns of the frame each endpoint returns (first one: its identity).
RemoteCols(t) ==
  CASE t = "player_info" -> {"PERSON_ID", "DISPLAY_FIRST_LAST"}
    [] t = "player_stats" -> {"PLAYER_ID", "SEASON_ID", "TEAM_ID", "PTS"}
    [] t = "game_log" -> {"GAME_ID", "GAME_DATE", "MATCHUP", "PTS"}
    [] t = "player_game_log" -> {"Game_ID", "Player_ID", "PTS"}
    [] t = "game_pbp" -> {"gameId", "actionNumber"}

\* The column in which a table's rows carry their identity.
IdCol(t) ==
  CASE t = "player_info" -> "PERSON_ID"
    [] t = "player_stats" -> "PLAYER_ID"
    [] t = "game_log" -> "GAME_ID"
    [] t = "player_game_log" -> "Game_ID"
    [] t = "game_pbp" -> "gameId"

\* self.table_schemas of the stand-alone loader, "ID TEXT" for any other table.
LegacySchemaCols(t) ==
  CASE t = "player_info" -> {"PERSON_ID"}
    [] t = "player_stats" -> {"PLAYER_ID", "SEASON_ID", "TEAM_ID"}
    [] t = "game_log" -> {"GAME_ID", "GAME_DATE", "MATCHUP"}
    [] OTHER -> {"ID"}

\* ------------------------------------------------------------ frames and tables
\* A row is [id, k]: the value of its identity column and its number within
\* the payload of that identity.  A frame (DataFrame) is [cols, rows].
Rows(x, n) == [k \in 1..n |-> [id |-> x, k |-> k]]
Frame(t, x, n) == [cols |-> RemoteCols(t), rows |-> Rows(x, n)]

Missing == [exists |-> FALSE, cols |-> {}, rows |-> <<>>]
Table(cols, rows) == [exists |-> TRUE, cols |-> cols, rows |-> rows]

\* The identities a table holds.
IdsOf(tbl) == {tbl.rows[k].id : k \in DOMAIN tbl.rows}

\* ------------------------------------------------------------ store adapter
\* pd.read_sql("SELECT DISTINCT col FROM t") fails (pandas DatabaseError) when
\* the table or the column does not exist.
ReadFails(s, t, col) == ~s[t].exists \/ col \notin s[t].cols

\* Mutant: the index always reads as empty.
GetExistingIds_Empty(s, t, col) == [raised |-> FALSE, ids |-> {}]

\* NBALoader._get_existing_ids: the except clause names sqlite3.Error only, so
\* the DatabaseError of a failed query leaves the method.
GetExistingIds(s, t, col) ==
  IF ReadFails(s, t, col)
    THEN [raised |-> TRUE, ids |-> {}]
    ELSE [raised |-> FALSE, ids |-> IdsOf(s[t])]

\* NBALoader._init_table_if_not_exists: df.head(0).to_sql on a missing table.
InitTableIfNotExists(s, t, df) ==
  IF s[t].exists THEN s ELSE [s EXCEPT ![t] = Table(df.cols, <<>>)]

\* DataFrame.to_sql(t, conn, if_exists=...); io = "fail" is an INSERT that
\* fails (disk full, locked file...).  The DROP and CREATE of replace mode
\* are committed before the INSERT starts.
ToSql(tbl, df, if_exists, io) ==
  IF ~tbl.exists \/ if_exists = "replace"
    THEN IF io = "ok"
           THEN [tbl |-> Table(df.cols, df.rows), raised |-> FALSE]
           ELSE [tbl |-> Table(df.cols, <<>>), raised |-> TRUE]
    ELSE IF io = "ok" /\ df.cols \subseteq tbl.cols
           THEN [tbl |-> Table(tbl.cols, tbl.rows \o df.rows), raised |-> FALSE]
           ELSE [tbl |-> tbl, raised |-> TRUE]

\* NBALoader._save_to_sqlite
SaveToSqlite(s, df, category, table_name, if_exists, io) ==
  IF df.rows = <<>>
    THEN [store |-> s, raised |-> FALSE]
    ELSE LET full_table_name == FullTableName(category, table_name)
             s1 == InitTableIfNotExists(s, full_table_name, df)
             w == ToSql(s1[full_table_name], df, if_exists, io)
         IN [store |-> [s1 EXCEPT ![full_table_name] = w.tbl], raised |-> w.raised]


\* pd.concat(all_new_data, ignore_index=True): the frames' rows in list order.
RECURSIVE Concat(_)
Concat(dfs) ==
  IF dfs = <<>>
    THEN [cols |-> {}, rows |-> <<>>]
    ELSE LET rest == Concat(Tail(dfs))
         IN [cols |-> Head(dfs).cols \cup rest.cols, rows |-> Head(dfs).rows \o rest.rows]

\* ------------------------------------------------------------ state
VARIABLES
  store,          \* the SQLite file: table name -> [exists, cols, rows]
  op,             \* the loader call the driver is configured with
  args,           \* its arguments
  max_error_times, \* config.MAX_ERROR_TIMES as configured for the run
  pc,             \* "idle" between invocations, "loop" / "inner" in a loop, "end" after it
  work,           \* the list the loop runs over (new_ids, todo_game_ids, seasons, player_ids)
  idx,            \* position of the next item of work
  jdx,            \* fetch_player_game_logs: position of the next season
  error_count,
  success_count,
  all_new_data,   \* fetch_pbp_data's buffer of frames
  all_game_ids,   \* fetch_player_game_logs' list of new game ids
  ret,            \* how the last invocation ended: "none", "returned", "raised"
  result,         \* the value it returned, where it returns one
  start,          \* observation: the store when the invocation started
  trace,          \* observation: the pauses and remote calls of the invocation, in order
  faults,         \* observation: what failed around the loader in the invocation
  prev,           \* observation: how the invocation before ended and what it was served
  appended        \* observation: identity -> payloads of it appended by fetch operations

vars == <<store, op, args, max_error_times, pc, work, idx, jdx, error_count, success_count, all_new_data,
          all_game_ids, ret, result, start, trace, faults, prev, appended>>

\* The operations that filter an identity list against the store, then append.
AppendOps == {"fetch_player_career", "fetch_pbp_data"}
\* The operations that fetch per season and filter the returned rows.
SeasonOps == {"fetch_games", "fetch_player_game_logs"}
StoreOps == {"_get_existing_ids", "_save_to_sqlite"}
LegacyOps == {"legacy_get_existing_ids", "legacy_save_to_sqlite", "legacy_fetch_player_career"}
Ops == AppendOps \cup SeasonOps \cup StoreOps \cup LegacyOps \cup {"fetch_all_players"}

\* (category, table_name) pairs the loaders save under.
SaveTargets ==
  {<<"player", "info">>, <<"player", "stats">>, <<"player", "game_log">>,
   <<"game", "log">>, <<"game", "pbp">>}

\* The table an operation reads its index from and writes to.
Target(o, a) ==
  CASE o \in {"fetch_player_career", "legacy_fetch_player_career"} -> "player_stats"
    [] o = "fetch_pbp_data" -> "game_pbp"
    [] o = "fetch_games" -> "game_log"
    [] o = "fetch_player_game_logs" -> "player_game_log"
    [] o = "fetch_all_players" -> "player_info"
    [] o \in {"_get_existing_ids", "legacy_get_existing_ids"} -> a
    [] o \in {"_save_to_sqlite", "legacy_save_to_sqlite"} -> FullTableName(a[1], a[2])

\* The identities of a table's payloads.
Identities(t) == IF t \in {"player_info", "player_stats"} THEN Players ELSE Games

\* The stand-alone loader's driver passes a list of two players
\* (src/load_data.py:160); its lists are those of at most that length.
LegacyPlayerLists == SeqsUpTo(Players, Cardinality(Players))

\* fetch_games(self, seasons: List[str] = "2023-24"): the default is a string,
\* and `for season in seasons` runs over its characters (here the first two).
DefaultSeasons == <<"2", "0">>

ArgsOf(o) ==
  CASE o = "fetch_player_career" -> SeqsUpTo(Players, MaxLen)
    [] o = "legacy_fetch_player_career" -> LegacyPlayerLists
    [] o = "fetch_pbp_data" -> SeqsUpTo(Games, MaxLen)
    [] o = "fetch_games" -> SeqsUpTo(Seasons, MaxLen) \cup {DefaultSeasons}
    [] o = "fetch_player_game_logs" ->
         {a \in [player_ids : SeqsUpTo(Players, MaxLen), seasons : SeqsUpTo(Seasons, MaxLen)] :
            Len(a.player_ids) * Len(a.seasons) <= MaxLen}
    [] o = "fetch_all_players" -> {<<>>}
    [] o \in {"_get_existing_ids", "legacy_get_existing_ids"} -> Tables
    [] o \in {"_save_to_sqlite", "legacy_save_to_sqlite"} -> SaveTargets

\* One row per entry of a list of identities.
RowsOf(ids) == [k \in DOMAIN ids |-> [id |-> ids[k], k |-> 1]]

\* Database files the loader may find: no table at all, or every other
\* table holding one payload and the target missing, created from a payload
\* (empty, one identity, every identity), or created by the stand-alone
\* loader's _init_table.
FirstId(t) == IF Identities(t) = Players THEN "p1" ELSE "g1"
OtherId(t) == IF Identities(t) = Players THEN "p2" ELSE "g2"

TableInits(t) ==
  { Missing,
    Table(RemoteCols(t), <<>>),
    Table(RemoteCols(t), RowsOf(<<FirstId(t)>>)),
    Table(RemoteCols(t), RowsOf(<<FirstId(t), OtherId(t)>>)),
    Table(LegacySchemaCols(t), <<>>) }

Bystander(t) == Table(RemoteCols(t), RowsOf(<<FirstId(t)>>))

EmptyStore == [t \in Tables |-> Missing]

InitStores(target) ==
  {EmptyStore} \cup
  { [t \in Tables |-> IF t = target THEN own ELSE Bystander(t)] : own \in TableInits(target) }

NoPrev == [ret |-> "none", clean |-> TRUE, wrote |-> FALSE, served |-> {}]

\* The loader before its first invocation, on the database file it found.
InitLocals ==
  /\ pc = "idle"
  /\ work = <<>>
  /\ idx = 1
  /\ jdx = 1
  /\ error_count = 0
  /\ success_count = 0
  /\ all_new_data = <<>>
  /\ all_game_ids = <<>>
  /\ ret = "none"
  /\ result = {}
  /\ start = store
  /\ trace = <<>>
  /\ faults = {}
  /\ prev = NoPrev
  /\ appended = [x \in Players \cup Games |-> 0]

Init ==
  /\ op \in Ops
  /\ args \in ArgsOf(op)
  /\ max_error_times = MAX_ERROR_TIMES
  /\ store \in InitStores(Target(op, args))
  /\ InitLocals

\* The error-budget runs: fetch_pbp_data over the longer game lists.
InitBudget ==
  /\ op = "fetch_pbp_data"
  /\ args \in SeqsUpTo(Games, MaxGameIds)
  /\ max_error_times = MAX_ERROR_TIMES
  /\ store \in InitStores("game_pbp")
  /\ InitLocals

\* The call-order runs: the four looping operations, fetch_player_game_logs
\* with up to MaxPairs (player, season) pairs.  The pair lists longer than
\* MaxLen run on a database without tables or on one whose player_game_log
\* holds every game.
OrderOps == AppendOps \cup SeasonOps

LongPairLists ==
  {a \in [player_ids : SeqsUpTo(Players, MaxLen), seasons : SeqsUpTo(Seasons, MaxLen)] :
     /\ Len(a.player_ids) * Len(a.seasons) > MaxLen
     /\ Len(a.player_ids) * Len(a.seasons) <= MaxPairs}

FullLogStore ==
  [t \in Tables |-> IF t = "player_game_log"
                      THEN Table(RemoteCols(t), RowsOf(<<FirstId(t), OtherId(t)>>))
                      ELSE Bystander(t)]

InitOrder ==
  /\ op \in OrderOps
  /\ max_error_times = MAX_ERROR_TIMES
  /\ \/ args \in ArgsOf(op) /\ store \in InitStores(Target(op, args))
     \/ /\ op = "fetch_player_game_logs"
        /\ args \in LongPairLists
        /\ store \in {EmptyStore, FullLogStore}
  /\ InitLocals

\* The resumption runs: fetch_player_career or fetch_pbp_data invoked again
\* and again with one list.
InitResume ==
  /\ op \in AppendOps
  /\ args \in ArgsOf(op)
  /\ max_error_times = MAX_ERROR_TIMES
  /\ store \in InitStores(Target(op, args))
  /\ InitLocals

\* The runs that tell a cumulative budget from a consecutive one:
\* fetch_pbp_data with budgets up to MaxBudget over lists long enough for
\* failures with successes in between and an item left over.
InitConsecutive ==
  /\ op = "fetch_pbp_data"
  /\ args \in SeqsUpTo(Games, MaxTodo)
  /\ max_error_times \in 1..MaxBudget
  /\ store \in InitStores("game_pbp")
  /\ InitLocals

\* ------------------------------------------------------------ observation
Pause == [ev |-> "pause"]
Call(item, res, rows) == [ev |-> "call", item |-> item, res |-> res, rows |-> rows]

\* The frames the remote served in the invocation: <<item, rows>>.
Served ==
  {<<trace[k].item, trace[k].rows>> :
     k \in {j \in DOMAIN trace : trace[j].ev = "call" /\ trace[j].res = "frame"}}

\* The items of the remote calls issued in the invocation, in order.
Calls ==
  LET called == SelectSeq(trace, LAMBDA e : e.ev = "call")
  IN [k \in DOMAIN called |-> called[k].item]

\* What the invocation that just ended leaves for the next one to compare with
\* (the frames served are kept for the operations that fetch by identity).
Summary ==
  [ret |-> ret, clean |-> faults = {}, wrote |-> store # start,
   served |-> IF op \in SeasonOps THEN {} ELSE Served]

\* Every invocation starts from the idle loader with fresh locals.
Enter(o) ==
  /\ pc = "idle"
  /\ op = o
  /\ prev' = IF ret = "none" THEN prev ELSE Summary
  /\ start' = store
  /\ idx' = 1
  /\ jdx' = 1
  /\ error_count' = 0
  /\ success_count' = 0
  /\ all_new_data' = <<>>
  /\ all_game_ids' = <<>>
  /\ UNCHANGED <<op, args, max_error_times>>

\* Nothing observed yet, nothing returned yet.
Fresh == trace' = <<>> /\ faults' = {} /\ result' = {}

\* One payload of identity x appended once more, when df carries its first row.
Count(df) ==
  [x \in DOMAIN appended |->
     appended[x] + Cardinality({k \in DOMAIN df.rows : df.rows[k].id = x /\ df.rows[k].k = 1})]

\* Where control is once item i of list w is the next one.
AfterItem(w, i) == IF i > Len(w) THEN "end" ELSE "loop"

\* The remote's answers: an exception, an operator interrupt, or a frame.
RemoteResults == {"error", "interrupt", "frame"}
IO == {"ok", "fail"}

\* ------------------------------------------------------------ fetch_player_career
\* Mutant: the filter dropped, every requested player is fetched again.
NewIds_NoFilter(ids, existing) == ids

\* new_ids = [pid for pid in player_ids if pid not in existing_ids]
NewIds(ids, existing) == SelectSeq(ids, LAMBDA x : x \notin existing)

FetchPlayerCareerStart ==
  /\ Enter("fetch_player_career")
  /\ Fresh
  /\ LET existing == GetExistingIds(store, "player_stats", "PLAYER_ID")
         new_ids == NewIds(args, existing.ids)
     IN /\ work' = IF existing.raised THEN <<>> ELSE new_ids
        /\ ret' = IF existing.raised THEN "raised"
                  ELSE IF new_ids = <<>> THEN "returned" ELSE "none"
        /\ pc' = IF existing.raised \/ new_ids = <<>> THEN "idle" ELSE "loop"
  /\ UNCHANGED <<store, appended>>

FetchPlayerCareerItem ==
  /\ pc = "loop"
  /\ op = "fetch_player_career"
  /\ LET pid == work[idx] IN
     \E res \in RemoteResults, n \in 0..MaxRows, io \in IO, pause \in {"ok", "interrupt"} :
       \/ /\ res = "error" /\ n = 0 /\ io = "ok" /\ pause = "ok"
          /\ trace' = Append(trace, Call(pid, "error", <<>>))
          /\ faults' = faults \cup {"remote"}
          /\ error_count' = error_count + 1
          /\ pc' = AfterItem(work, idx + 1)
          /\ idx' = idx + 1
          /\ UNCHANGED <<store, success_count, appended>>
       \/ /\ res = "interrupt" /\ n = 0 /\ io = "ok" /\ pause = "ok"
          /\ trace' = Append(trace, Call(pid, "interrupt", <<>>))
          /\ faults' = faults \cup {"interrupt"}
          /\ pc' = "end"
          /\ UNCHANGED <<store, idx, error_count, success_count, appended>>
       \/ /\ res = "frame"
          /\ (n = 0 => io = "ok")
          /\ LET df == Frame("player_stats", pid, n)
                 saved == SaveToSqlite(store, df, "player", "stats", "append", io)
             IN /\ store' = saved.store
                /\ IF saved.raised
                     THEN /\ pause = "ok"
                          /\ trace' = Append(trace, Call(pid, "frame", df.rows))
                          /\ faults' = faults \cup (IF io = "fail" THEN {"io"} ELSE {})
                          /\ error_count' = error_count + 1
                          /\ pc' = AfterItem(work, idx + 1)
                          /\ idx' = idx + 1
                          /\ UNCHANGED <<success_count, appended>>
                     ELSE /\ success_count' = success_count + 1
                          /\ appended' = Count(df)
                          /\ trace' = trace \o <<Call(pid, "frame", df.rows), Pause>>
                          /\ faults' = faults \cup (IF pause = "interrupt" THEN {"interrupt"} ELSE {})
                          /\ pc' = IF pause = "interrupt" THEN "end" ELSE AfterItem(work, idx + 1)
                          /\ idx' = IF pause = "interrupt" THEN idx ELSE idx + 1
                          /\ UNCHANGED error_count
  /\ UNCHANGED <<op, args, max_error_times, work, jdx, all_new_data, all_game_ids, ret, result, start, prev>>

FetchPlayerCareerEnd ==
  /\ pc = "end"
  /\ op = "fetch_player_career"
  /\ pc' = "idle"
  /\ ret' = "returned"
  /\ UNCHANGED <<store, op, args, max_error_times, work, idx, jdx, error_count, success_count, all_new_data,
                 all_game_ids, result, start, trace, faults, prev, appended>>

FetchPlayerCareer == FetchPlayerCareerStart \/ FetchPlayerCareerItem \/ FetchPlayerCareerEnd

\* ------------------------------------------------------------ fetch_pbp_data
\* Mutant: the filter inverted, only the games already stored are kept.
TodoGameIds_Inverted(ids, existing) == SelectSeq(ids, LAMBDA x : x \in existing)

\* todo_game_ids = [gid for gid in game_ids if gid not in existing_pbp_ids]
TodoGameIds(ids, existing) == SelectSeq(ids, LAMBDA x : x \notin existing)

\* Mutant: the budget test never fires.
BudgetExhausted_Never(n) == FALSE

\* The guard at the top of the loop body: error_count >= MAX_ERROR_TIMES.
BudgetExhausted(n) == n >= max_error_times

\* Mutant: a new frame goes to the front of the buffer.
Accept_Prepend(buffer, df) == IF df.rows # <<>> THEN <<df>> \o buffer ELSE buffer

\* if not df.empty: all_new_data.append(df)
Accept(buffer, df) == IF df.rows # <<>> THEN Append(buffer, df) ELSE buffer

\* The second early return tests game_ids again (not todo_game_ids), so it is
\* never taken: an empty work list goes through the loop and the final branch.
FetchPbpDataStart ==
  /\ Enter("fetch_pbp_data")
  /\ Fresh
  /\ LET existing == GetExistingIds(store, "game_pbp", "gameId")
         todo_game_ids == TodoGameIds(args, existing.ids)
     IN IF args = <<>>
          THEN work' = <<>> /\ ret' = "returned" /\ pc' = "idle"
          ELSE IF existing.raised
            THEN work' = <<>> /\ ret' = "raised" /\ pc' = "idle"
            ELSE work' = todo_game_ids /\ ret' = "none" /\ pc' = AfterItem(todo_game_ids, 1)
  /\ UNCHANGED <<store, appended>>

FetchPbpDataItem ==
  /\ pc = "loop"
  /\ op = "fetch_pbp_data"
  /\ LET gid == work[idx] IN
     IF BudgetExhausted(error_count)
       THEN /\ pc' = "end"
            /\ UNCHANGED <<idx, error_count, all_new_data, ret, trace, faults>>
       ELSE \E pause \in {"ok", "interrupt"}, res \in RemoteResults, n \in 0..MaxRows :
         \/ /\ pause = "interrupt" /\ res = "frame" /\ n = 0
            \* _pause() is called outside the try block
            /\ trace' = Append(trace, Pause)
            /\ faults' = faults \cup {"interrupt"}
            /\ pc' = "idle"
            /\ ret' = "raised"
            /\ UNCHANGED <<idx, error_count, all_new_data>>
         \/ /\ pause = "ok" /\ res = "error" /\ n = 0
            /\ trace' = trace \o <<Pause, Call(gid, "error", <<>>)>>
            /\ faults' = faults \cup {"remote"}
            /\ error_count' = error_count + 1
            /\ pc' = AfterItem(work, idx + 1)
            /\ idx' = idx + 1
            /\ UNCHANGED <<all_new_data, ret>>
         \/ /\ pause = "ok" /\ res = "interrupt" /\ n = 0
            /\ trace' = trace \o <<Pause, Call(gid, "interrupt", <<>>)>>
            /\ faults' = faults \cup {"interrupt"}
            /\ pc' = "end"
            /\ UNCHANGED <<idx, error_count, all_new_data, ret>>
         \/ /\ pause = "ok" /\ res = "frame"
            /\ trace' = trace \o <<Pause, Call(gid, "frame", Rows(gid, n))>>
            /\ all_new_data' = Accept(all_new_data, Frame("game_pbp", gid, n))
            /\ pc' = AfterItem(work, idx + 1)
            /\ idx' = idx + 1
            /\ UNCHANGED <<error_count, faults, ret>>
  /\ UNCHANGED <<store, op, args, max_error_times, work, jdx, success_count, all_game_ids, result, start, prev, appended>>

\* The single write after the loop; its exception is not caught.
FetchPbpDataEnd ==
  /\ pc = "end"
  /\ op = "fetch_pbp_data"
  /\ pc' = "idle"
  /\ IF all_new_data # <<>>
       THEN \E io \in IO :
              LET final_df == Concat(all_new_data)
                  saved == SaveToSqlite(store, final_df, "game", "pbp", "append", io)
              IN /\ store' = saved.store
                 /\ ret' = IF saved.raised THEN "raised" ELSE "returned"
                 /\ appended' = IF saved.raised THEN appended ELSE Count(final_df)
                 /\ faults' = faults \cup (IF io = "fail" THEN {"io"} ELSE {})
       ELSE /\ ret' = "returned"
            /\ UNCHANGED <<store, appended, faults>>
  /\ UNCHANGED <<op, args, max_error_times, work, idx, jdx, error_count, success_count, all_new_data,
                 all_game_ids, result, start, trace, prev>>

FetchPbpData == FetchPbpDataStart \/ FetchPbpDataItem \/ FetchPbpDataEnd

\* ------------------------------------------------------------ fetch_games
\* Mutant: the frame is appended unfiltered.
NotIn_Keep(rows, existing) == rows

\* df_all[~df_all["GAME_ID"].isin(existing_game_ids)]
NotIn(rows, existing) == SelectSeq(rows, LAMBDA r : r.id \notin existing)

\* The games a season's frame may list, one row each: none, one, both, or
\* one game on two rows (the endpoint lists a game once per team).
GameLists == {<<>>, <<"g1">>, <<"g2">>, <<"g1", "g2">>, <<"g1", "g1">>}

\* The frames a season call may return.
SeasonFrames(t) == {[cols |-> RemoteCols(t), rows |-> RowsOf(gl)] : gl \in GameLists}

\* Mutant: the index is read from the database as it was on entry.
GamesIndexStore_Stale == start

\* The database the per-season index read of fetch_games queries: the
\* _get_existing_ids call is inside the loop and opens a new connection, so
\* it sees the appends of the earlier seasons.
GamesIndexStore == store

FetchGamesStart ==
  /\ Enter("fetch_games")
  /\ Fresh
  /\ work' = args
  /\ ret' = "none"
  /\ pc' = AfterItem(args, 1)
  /\ UNCHANGED <<store, appended>>

FetchGamesItem ==
  /\ pc = "loop"
  /\ op = "fetch_games"
  /\ LET season == work[idx] IN
     \E pause \in {"ok", "interrupt"}, res \in RemoteResults,
        df_all \in SeasonFrames("game_log"), io \in IO :
       \/ /\ pause = "interrupt" /\ res = "frame" /\ df_all.rows = <<>> /\ io = "ok"
          \* _pause() is called outside the try block
          /\ trace' = Append(trace, Pause)
          /\ faults' = faults \cup {"interrupt"}
          /\ pc' = "idle"
          /\ ret' = "raised"
          /\ UNCHANGED <<store, idx, error_count, success_count>>
       \/ /\ pause = "ok" /\ res = "error" /\ df_all.rows = <<>> /\ io = "ok"
          /\ trace' = trace \o <<Pause, Call(season, "error", <<>>)>>
          /\ faults' = faults \cup {"remote"}
          /\ error_count' = error_count + 1
          /\ pc' = AfterItem(work, idx + 1)
          /\ idx' = idx + 1
          /\ UNCHANGED <<store, success_count, ret>>
       \/ /\ pause = "ok" /\ res = "interrupt" /\ df_all.rows = <<>> /\ io = "ok"
          /\ trace' = trace \o <<Pause, Call(season, "interrupt", <<>>)>>
          /\ faults' = faults \cup {"interrupt"}
          /\ pc' = "end"
          /\ UNCHANGED <<store, idx, error_count, success_count, ret>>
       \/ /\ pause = "ok" /\ res = "frame"
          /\ trace' = trace \o <<Pause, Call(season, "frame", df_all.rows)>>
          /\ pc' = AfterItem(work, idx + 1)
          /\ idx' = idx + 1
          /\ ret' = ret
          /\ LET existing_game_ids == GetExistingIds(GamesIndexStore, "game_log", "GAME_ID")
                 df_new == [cols |-> df_all.cols, rows |-> NotIn(df_all.rows, existing_game_ids.ids)]
                 saved == SaveToSqlite(store, df_new, "game", "log", "append", io)
             IN IF df_all.rows = <<>>
                  THEN io = "ok" /\ UNCHANGED <<store, error_count, success_count, faults>>
                  ELSE IF existing_game_ids.raised
                    THEN /\ io = "ok"
                         /\ error_count' = error_count + 1
                         /\ UNCHANGED <<store, success_count, faults>>
                    ELSE IF df_new.rows = <<>>
                      THEN io = "ok" /\ UNCHANGED <<store, error_count, success_count, faults>>
                      ELSE /\ store' = saved.store
                           /\ faults' = faults \cup (IF io = "fail" THEN {"io"} ELSE {})
                           /\ error_count' = error_count + (IF saved.raised THEN 1 ELSE 0)
                           /\ success_count' = success_count + (IF saved.raised THEN 0 ELSE 1)
  /\ UNCHANGED <<op, args, max_error_times, work, jdx, all_new_data, all_game_ids, result, start, prev, appended>>

FetchGamesEnd ==
  /\ pc = "end"
  /\ op = "fetch_games"
  /\ pc' = "idle"
  /\ ret' = "returned"
  /\ UNCHANGED <<store, op, args, max_error_times, work, idx, jdx, error_count, success_count, all_new_data,
                 all_game_ids, result, start, trace, faults, prev, appended>>

FetchGames == FetchGamesStart \/ FetchGamesItem \/ FetchGamesEnd

\* ------------------------------------------------------------ fetch_player_game_logs
\* The frames a (player, season) call may return: one row per game played.
LogFrames(player_id) ==
  {[cols |-> RemoteCols("player_game_log"),
    rows |-> [k \in DOMAIN gl |-> [id |-> gl[k], k |-> 1, who |-> player_id]]] :
     gl \in {<<>>, <<"g1">>, <<"g2">>, <<"g1", "g2">>}}

\* df_new["Game_ID"].unique().tolist(): the ids in order of first appearance.
RECURSIVE Unique(_)
Unique(rows) ==
  IF rows = <<>> THEN <<>>
  ELSE LET init == Unique(SubSeq(rows, 1, Len(rows) - 1))
           last == rows[Len(rows)].id
       IN IF \E k \in DOMAIN init : init[k] = last THEN init ELSE Append(init, last)

\* list(set(all_game_ids))
AsSet(ids) == {ids[k] : k \in DOMAIN ids}

\* Mutant: the seasons of a player taken from the last to the first.
SeasonAt_Reversed(seasons, j) == seasons[Len(seasons) + 1 - j]

\* for season in seasons_bar: the j-th season of the inner loop.
SeasonAt(seasons, j) == seasons[j]

FetchPlayerGameLogsStart ==
  /\ Enter("fetch_player_game_logs")
  /\ Fresh
  /\ work' = args.player_ids
  /\ ret' = "none"
  /\ pc' = AfterItem(args.player_ids, 1)
  /\ UNCHANGED <<store, appended>>

\* The head of the outer loop: the pause before a player's seasons.
FetchPlayerGameLogsPlayer ==
  /\ pc = "loop"
  /\ op = "fetch_player_game_logs"
  /\ trace' = Append(trace, Pause)
  /\ \E pause \in {"ok", "interrupt"} :
       IF pause = "interrupt"
         THEN /\ faults' = faults \cup {"interrupt"}
              /\ pc' = "idle"
              /\ ret' = "raised"
              /\ UNCHANGED <<idx, jdx>>
         ELSE /\ jdx' = 1
              /\ idx' = IF args.seasons = <<>> THEN idx + 1 ELSE idx
              /\ pc' = IF args.seasons = <<>> THEN AfterItem(work, idx + 1) ELSE "inner"
              /\ UNCHANGED <<faults, ret>>
  /\ UNCHANGED <<store, op, args, max_error_times, work, error_count, success_count, all_new_data,
                 all_game_ids, result, start, prev, appended>>

\* One season of the inner loop, then the next season or the next player.
FetchPlayerGameLogsSeason ==
  /\ pc = "inner"
  /\ op = "fetch_player_game_logs"
  /\ LET player_id == work[idx]
         season == SeasonAt(args.seasons, jdx)
         last == jdx = Len(args.seasons)
         Advance == /\ jdx' = IF last THEN 1 ELSE jdx + 1
                    /\ idx' = IF last THEN idx + 1 ELSE idx
                    /\ pc' = IF last THEN AfterItem(work, idx + 1) ELSE "inner"
     IN
     \E pause \in {"ok", "interrupt"}, res \in RemoteResults,
        df \in LogFrames(player_id), io \in IO :
       \/ /\ pause = "interrupt" /\ res = "frame" /\ df.rows = <<>> /\ io = "ok"
          /\ trace' = Append(trace, Pause)
          /\ faults' = faults \cup {"interrupt"}
          /\ pc' = "idle"
          /\ ret' = "raised"
          /\ UNCHANGED <<store, idx, jdx, error_count, success_count, all_game_ids, result>>
       \/ /\ pause = "ok" /\ res = "error" /\ df.rows = <<>> /\ io = "ok"
          /\ trace' = trace \o <<Pause, Call(<<player_id, season>>, "error", <<>>)>>
          /\ faults' = faults \cup {"remote"}
          /\ error_count' = error_count + 1
          /\ Advance
          /\ UNCHANGED <<store, success_count, all_game_ids, result, ret>>
       \/ /\ pause = "ok" /\ res = "interrupt" /\ df.rows = <<>> /\ io = "ok"
          \* return list(set(all_game_ids))
          /\ trace' = trace \o <<Pause, Call(<<player_id, season>>, "interrupt", <<>>)>>
          /\ faults' = faults \cup {"interrupt"}
          /\ pc' = "idle"
          /\ ret' = "returned"
          /\ result' = AsSet(all_game_ids)
          /\ UNCHANGED <<store, idx, jdx, error_count, success_count, all_game_ids>>
       \/ /\ pause = "ok" /\ res = "frame"
          /\ trace' = trace \o <<Pause, Call(<<player_id, season>>, "frame", df.rows)>>
          /\ Advance
          /\ UNCHANGED <<ret, result>>
          /\ LET existing_game_ids == GetExistingIds(store, "player_game_log", "Game_ID")
                 df_new == [cols |-> df.cols, rows |-> NotIn(df.rows, existing_game_ids.ids)]
                 saved == SaveToSqlite(store, df_new, "player", "game_log", "append", io)
             IN IF df.rows = <<>>
                  THEN io = "ok" /\ UNCHANGED <<store, error_count, success_count, all_game_ids, faults>>
                  ELSE IF existing_game_ids.raised
                    THEN /\ io = "ok"
                         /\ error_count' = error_count + 1
                         /\ UNCHANGED <<store, success_count, all_game_ids, faults>>
                    ELSE IF df_new.rows = <<>>
                      THEN io = "ok" /\ UNCHANGED <<store, error_count, success_count, all_game_ids, faults>>
                      ELSE /\ store' = saved.store
                           /\ faults' = faults \cup (IF io = "fail" THEN {"io"} ELSE {})
                           /\ error_count' = error_count + (IF saved.raised THEN 1 ELSE 0)
                           /\ success_count' = success_count + (IF saved.raised THEN 0 ELSE 1)
                           /\ all_game_ids' = IF saved.raised THEN all_game_ids
                                              ELSE all_game_ids \o Unique(df_new.rows)
  /\ UNCHANGED <<op, args, max_error_times, work, all_new_data, start, prev, appended>>

FetchPlayerGameLogsEnd ==
  /\ pc = "end"
  /\ op = "fetch_player_game_logs"
  /\ pc' = "idle"
  /\ ret' = "returned"
  /\ result' = AsSet(all_game_ids)
  /\ UNCHANGED <<store, op, args, max_error_times, work, idx, jdx, error_count, success_count, all_new_data,
                 all_game_ids, start, trace, faults, prev, appended>>

FetchPlayerGameLogs ==
  \/ FetchPlayerGameLogsStart
  \/ FetchPlayerGameLogsPlayer
  \/ FetchPlayerGameLogsSeason
  \/ FetchPlayerGameLogsEnd

\* ------------------------------------------------------------ fetch_all_players
\* The frames the player-list endpoint may return.
PlayerFrames ==
  {[cols |-> RemoteCols("player_info"), rows |-> RowsOf(pl)] : pl \in SeqsUpTo(Players, MaxLen)}

\* Mutant: the write of fetch_all_players made in append mode.
AllPlayersMode_Append == "append"

\* if_exists="replace" at the call of _save_to_sqlite
AllPlayersMode == "replace"

\* One step: the remote call, the write in replace mode, and `raise` for
\* whatever either of them raised.
FetchAllPlayers ==
  /\ Enter("fetch_all_players")
  /\ work' = <<>>
  /\ pc' = "idle"
  /\ result' = {}
  /\ UNCHANGED appended
  /\ \E res \in RemoteResults, df \in PlayerFrames, io \in IO :
       \/ /\ res # "frame" /\ df.rows = <<>> /\ io = "ok"
          /\ trace' = <<Call("all", res, <<>>)>>
          /\ faults' = {IF res = "error" THEN "remote" ELSE "interrupt"}
          /\ ret' = "raised"
          /\ UNCHANGED store
       \/ /\ res = "frame"
          /\ (df.rows = <<>> => io = "ok")
          /\ LET saved == SaveToSqlite(store, df, "player", "info", AllPlayersMode, io)
             IN /\ store' = saved.store
                /\ ret' = IF saved.raised THEN "raised" ELSE "returned"
          /\ trace' = <<Call("all", "frame", df.rows)>>
          /\ faults' = IF io = "fail" THEN {"io"} ELSE {}

\* ------------------------------------------------------------ direct store calls
\* The frames a caller may hand to _save_to_sqlite for table t: empty or one
\* identity's payload, in the endpoint's layout or with one more column.
SaveFrames(t) ==
  {[cols |-> c, rows |-> r] :
     c \in {RemoteCols(t), RemoteCols(t) \cup {"NEW_COL"}},
     r \in {<<>>} \cup {Rows(x, n) : x \in Identities(t), n \in 1..MaxRows}}

Save(df, if_exists) == [ev |-> "save", df |-> df, if_exists |-> if_exists]

\* loader._get_existing_ids(t, id column of t)
GetExistingIdsCall ==
  /\ Enter("_get_existing_ids")
  /\ LET existing == GetExistingIds(store, args, IdCol(args))
     IN /\ ret' = IF existing.raised THEN "raised" ELSE "returned"
        /\ result' = existing.ids
  /\ work' = <<>>
  /\ pc' = "idle"
  /\ trace' = <<>>
  /\ faults' = {}
  /\ UNCHANGED <<store, appended>>

\* loader._save_to_sqlite(df, category, table_name, if_exists)
SaveToSqliteCall ==
  /\ Enter("_save_to_sqlite")
  /\ \E df \in SaveFrames(Target(op, args)), if_exists \in {"append", "replace"}, io \in IO :
       LET saved == SaveToSqlite(store, df, args[1], args[2], if_exists, io)
       IN /\ Len(store[Target(op, args)].rows) + Len(df.rows) <= MaxStoreRows
          /\ (df.rows = <<>> => io = "ok")
          /\ store' = saved.store
          /\ ret' = IF saved.raised THEN "raised" ELSE "returned"
          /\ trace' = <<Save(df, if_exists)>>
          /\ faults' = IF io = "fail" THEN {"io"} ELSE {}
  /\ work' = <<>>
  /\ pc' = "idle"
  /\ result' = {}
  /\ UNCHANGED appended

\* ------------------------------------------------------------ the stand-alone loader
\* _init_table: CREATE TABLE IF NOT EXISTS t (schema)
LegacyInitTable(s, t) ==
  IF s[t].exists THEN s ELSE [s EXCEPT ![t] = Table(LegacySchemaCols(t), <<>>)]

\* _get_existing_ids: the table is created first, a failed query gives set().
LegacyGetExistingIds(s, t, col) ==
  LET s1 == LegacyInitTable(s, t)
  IN [store |-> s1, ids |-> IF ReadFails(s1, t, col) THEN {} ELSE IdsOf(s1[t])]

\* _save_to_sqlite: the table is created before the emptiness test, and the
\* exception of a failed write is printed, not raised.
LegacySaveToSqlite(s, df, category, table_name, if_exists, io) ==
  LET full_table_name == FullTableName(category, table_name)
      s1 == LegacyInitTable(s, full_table_name)
      w == ToSql(s1[full_table_name], df, if_exists, io)
  IN IF df.rows = <<>>
       THEN [store |-> s1, wrote |-> FALSE]
       ELSE [store |-> [s1 EXCEPT ![full_table_name] = w.tbl], wrote |-> ~w.raised]

LegacyGetExistingIdsCall ==
  /\ Enter("legacy_get_existing_ids")
  /\ LET existing == LegacyGetExistingIds(store, args, IdCol(args))
     IN /\ store' = existing.store
        /\ result' = existing.ids
  /\ ret' = "returned"
  /\ work' = <<>>
  /\ pc' = "idle"
  /\ trace' = <<>>
  /\ faults' = {}
  /\ UNCHANGED appended

LegacySaveToSqliteCall ==
  /\ Enter("legacy_save_to_sqlite")
  /\ \E df \in SaveFrames(Target(op, args)), if_exists \in {"append", "replace"}, io \in IO :
       LET saved == LegacySaveToSqlite(store, df, args[1], args[2], if_exists, io)
       IN /\ Len(store[Target(op, args)].rows) + Len(df.rows) <= MaxStoreRows
          /\ (df.rows = <<>> => io = "ok")
          /\ store' = saved.store
          /\ trace' = <<Save(df, if_exists)>>
          /\ faults' = IF io = "fail" THEN {"io"} ELSE {}
  /\ ret' = "returned"
  /\ work' = <<>>
  /\ pc' = "idle"
  /\ result' = {}
  /\ UNCHANGED appended

\* fetch_player_career of the stand-alone loader: no early return, the loop
\* runs over new_ids (possibly empty).
LegacyFetchPlayerCareerStart ==
  /\ Enter("legacy_fetch_player_career")
  /\ Fresh
  /\ LET existing == LegacyGetExistingIds(store, "player_stats", "PLAYER_ID")
         new_ids == NewIds(args, existing.ids)
     IN /\ store' = existing.store
        /\ work' = new_ids
        /\ pc' = AfterItem(new_ids, 1)
  /\ ret' = "none"
  /\ UNCHANGED appended

\* One player: only Exception is caught, so an interrupt leaves the method.
LegacyFetchPlayerCareerItem ==
  /\ pc = "loop"
  /\ op = "legacy_fetch_player_career"
  /\ LET player_id == work[idx] IN
     \E res \in RemoteResults, n \in 0..MaxRows, io \in IO, pause \in {"ok", "interrupt"} :
       \/ /\ res = "error" /\ n = 0 /\ io = "ok" /\ pause = "ok"
          /\ trace' = Append(trace, Call(player_id, "error", <<>>))
          /\ faults' = faults \cup {"remote"}
          /\ pc' = AfterItem(work, idx + 1)
          /\ idx' = idx + 1
          /\ UNCHANGED <<store, ret, appended>>
       \/ /\ res = "interrupt" /\ n = 0 /\ io = "ok" /\ pause = "ok"
          /\ trace' = Append(trace, Call(player_id, "interrupt", <<>>))
          /\ faults' = faults \cup {"interrupt"}
          /\ pc' = "idle"
          /\ ret' = "raised"
          /\ UNCHANGED <<store, idx, appended>>
       \/ /\ res = "frame"
          /\ (n = 0 => io = "ok")
          /\ LET df == Frame("player_stats", player_id, n)
                 saved == LegacySaveToSqlite(store, df, "player", "stats", "append", io)
             IN /\ store' = saved.store
                /\ appended' = IF saved.wrote THEN Count(df) ELSE appended
          /\ trace' = trace \o <<Call(player_id, "frame", Rows(player_id, n)), Pause>>
          /\ faults' = faults \cup (IF io = "fail" THEN {"io"} ELSE {})
                              \cup (IF pause = "interrupt" THEN {"interrupt"} ELSE {})
          /\ pc' = IF pause = "interrupt" THEN "idle" ELSE AfterItem(work, idx + 1)
          /\ ret' = IF pause = "interrupt" THEN "raised" ELSE ret
          /\ idx' = IF pause = "interrupt" THEN idx ELSE idx + 1
  /\ UNCHANGED <<op, args, max_error_times, work, jdx, error_count, success_count, all_new_data,
                 all_game_ids, result, start, prev>>

LegacyFetchPlayerCareerEnd ==
  /\ pc = "end"
  /\ op = "legacy_fetch_player_career"
  /\ pc' = "idle"
  /\ ret' = "returned"
  /\ UNCHANGED <<store, op, args, max_error_times, work, idx, jdx, error_count, success_count, all_new_data,
                 all_game_ids, result, start, trace, faults, prev, appended>>

LegacyFetchPlayerCareer ==
  \/ LegacyFetchPlayerCareerStart
  \/ LegacyFetchPlayerCareerItem
  \/ LegacyFetchPlayerCareerEnd

\* ------------------------------------------------------------ claims
\* The remote returned the same payload whenever it was asked for the same
\* identity, in this invocation and the one before.
SamePayloads ==
  \A a \in Served \cup prev.served : \A b \in Served \cup prev.served : a[1] = b[1] => a[2] = b[2]

\* Nothing around the loader failed in this invocation and the one before:
\* no remote exception, no operator interrupt, no failed INSERT.
FaultFree == faults = {} /\ prev.clean

Ended == pc = "idle" /\ ret # "none"

\* C1: with a remote that never fails and returns the same payload for the
\* same identity, a second invocation of fetch_player_career or
\* fetch_pbp_data with the same identity list leaves the target table with
\* the rows it had after the first.
C1_Idempotent ==
  (op \in AppendOps /\ Ended /\ prev.ret # "none" /\ FaultFree /\ SamePayloads)
    => store[Target(op, args)].rows = start[Target(op, args)].rows

C1_Witness ==
  /\ op \in AppendOps /\ Ended /\ prev.ret = "returned" /\ prev.wrote
  /\ ret = "returned" /\ FaultFree /\ SamePayloads
  /\ store[Target(op, args)].rows = start[Target(op, args)].rows

\* C2: no identity present in the target table's identity column when the
\* invocation starts is in the work list (new_ids, todo_game_ids).
C2_DedupCorrect ==
  op \in AppendOps => \A k \in DOMAIN work : work[k] \notin IdsOf(start[Target(op, args)])

C2_Witness ==
  /\ op \in AppendOps /\ pc = "loop"
  /\ work # <<>> /\ Len(work) < Len(args)
  /\ \E k \in DOMAIN args : args[k] \in IdsOf(start[Target(op, args)])

\* C3: after invocations of fetch_player_career or fetch_pbp_data that
\* return normally, the payload of any one identity has been appended at
\* most once, whatever the identity list (repeated identities included).
C3_NoDuplicate ==
  (op \in AppendOps /\ Ended /\ ret = "returned" /\ prev.ret \in {"none", "returned"})
    => \A x \in DOMAIN appended : appended[x] <= 1

\* The rows the remote served in the invocation, in the order of the calls.
RECURSIVE ServedRows(_)
ServedRows(evs) ==
  IF evs = <<>> THEN <<>>
  ELSE (IF Head(evs).ev = "call" THEN Head(evs).rows ELSE <<>>) \o ServedRows(Tail(evs))

\* C4 (as stated): an invocation of fetch_all_players that returns normally
\* after an earlier one leaves player_info with exactly the rows of the
\* payload P' it was served, for every P'.
C4_ReplaceOverwrite ==
  (op = "fetch_all_players" /\ Ended /\ ret = "returned" /\ prev.ret = "returned")
    => store["player_info"].rows = ServedRows(trace)

\* C4 (amended): an invocation of fetch_all_players that returns normally
\* leaves player_info with exactly the rows and columns of its payload P'
\* when P' is not empty, and leaves the store as it found it when P' is empty.
C4_ReplaceOverwriteNonEmpty ==
  (op = "fetch_all_players" /\ Ended /\ ret = "returned")
    => IF ServedRows(trace) # <<>>
         THEN store["player_info"] = Table(RemoteCols("player_info"), ServedRows(trace))
         ELSE store = start

\* P (non-empty, written by the invocation before) is followed by a
\* different non-empty P', and P' is what the table holds.
C4_Witness ==
  /\ op = "fetch_all_players" /\ Ended /\ ret = "returned"
  /\ prev.ret = "returned" /\ prev.wrote
  /\ start["player_info"].rows # <<>>
  /\ ServedRows(trace) # <<>>
  /\ ServedRows(trace) # start["player_info"].rows
  /\ \A a \in prev.served : a[2] = start["player_info"].rows
  /\ store["player_info"].rows = ServedRows(trace)

\* C5: _save_to_sqlite called with an empty payload (append or replace mode,
\* either loader) returns without raising and leaves the store unchanged.
C5_EmptyPayloadNoOp ==
  (op \in {"_save_to_sqlite", "legacy_save_to_sqlite"} /\ Ended /\ trace[1].df.rows = <<>>)
    => ret = "returned" /\ store = start

\* The empty payload reaches a missing table, in replace mode.
C5_Witness ==
  /\ op \in {"_save_to_sqlite", "legacy_save_to_sqlite"} /\ Ended
  /\ trace[1].df.rows = <<>> /\ trace[1].if_exists = "replace"
  /\ ~start[Target(op, args)].exists

\* Every remote call of the invocation failed; the operator did not interrupt.
RemoteAlwaysFails ==
  /\ \A k \in DOMAIN trace : trace[k].ev = "call" => trace[k].res = "error"
  /\ "interrupt" \notin faults

\* C6: with a remote that fails every call, fetch_pbp_data over more than
\* MAX_ERROR_TIMES games, none of them in the store, issues at most
\* MAX_ERROR_TIMES remote calls, writes nothing and returns normally.
C6_ErrorBudgetStop ==
  (/\ op = "fetch_pbp_data" /\ Ended
   /\ Len(args) > MAX_ERROR_TIMES
   /\ \A k \in DOMAIN args : args[k] \notin IdsOf(start["game_pbp"])
   /\ RemoteAlwaysFails)
    => /\ ret = "returned"
       /\ Len(Calls) <= MAX_ERROR_TIMES
       /\ store = start

\* The loop stopped on the budget with games left to call.
C6_Witness ==
  /\ op = "fetch_pbp_data" /\ Ended /\ ret = "returned"
  /\ Len(work) > MAX_ERROR_TIMES
  /\ RemoteAlwaysFails
  /\ Len(Calls) = MAX_ERROR_TIMES
  /\ store = start

\* C7: _get_existing_ids for a table that does not exist returns the empty
\* set and does not raise (either loader).
C7_MissingTableEmptySet ==
  (op \in {"_get_existing_ids", "legacy_get_existing_ids"} /\ Ended /\ ~start[args].exists)
    => ret = "returned" /\ result = {}

\* The stand-alone loader is asked for a missing table.
C7_Witness ==
  /\ op = "legacy_get_existing_ids" /\ Ended /\ ~start[args].exists
  /\ ret = "returned" /\ result = {}

\* C8: from an empty store, fetch_player_career over a list L, the remote
\* returning a non-empty payload for every identity, calls the remote once
\* per entry of L, appends the payloads, and the identities player_stats
\* then holds are exactly those of L (either loader).
C8_FreshIngestComplete ==
  (/\ op \in {"fetch_player_career", "legacy_fetch_player_career"} /\ Ended
   /\ start = EmptyStore
   /\ faults = {}
   /\ \A a \in Served : a[2] # <<>>)
    => /\ ret = "returned"
       /\ Calls = args
       /\ ~ReadFails(store, "player_stats", "PLAYER_ID")
       /\ IdsOf(store["player_stats"]) = {args[k] : k \in DOMAIN args}

C10_BatchAggregation ==
  (op = "fetch_pbp_data" /\ Ended /\ ret = "returned")
    => /\ store["game_pbp"].rows = start["game_pbp"].rows \o ServedRows(trace)
       /\ ServedRows(trace) = <<>> => store = start

\* Two games' payloads buffered, then written in one piece.
C10_Witness ==
  /\ op = "fetch_pbp_data" /\ Ended /\ ret = "returned"
  /\ Len(all_new_data) = 2
  /\ all_new_data[1].rows # all_new_data[2].rows
  /\ store["game_pbp"].rows = start["game_pbp"].rows \o all_new_data[1].rows \o all_new_data[2].rows

\* The fetch operations of the loader update_data.py drives.
FetchOps == AppendOps \cup SeasonOps \cup {"fetch_all_players"}

\* The rows a table held at the start of the invocation are still its first rows.
KeptRows(t) ==
  /\ Len(store[t].rows) >= Len(start[t].rows)
  /\ SubSeq(store[t].rows, 1, Len(start[t].rows)) = start[t].rows

\* C11: in every fetch operation a failed store write does not leave the
\* operation: it returns normally, the other tables and the rows written
\* before are unchanged, and the loop has gone through the whole work list.
C11_WriteFailureIsolated ==
  (op \in FetchOps /\ Ended /\ "io" \in faults /\ "interrupt" \notin faults)
    => /\ ret = "returned"
       /\ \A t \in Tables \ {Target(op, args)} : store[t] = start[t]
       /\ KeptRows(Target(op, args))
       /\ op \in {"fetch_player_career", "fetch_games", "fetch_player_game_logs"}
            => idx = Len(work) + 1

\* fetch_player_career: one player's write failed, another player's payload
\* was stored, and the method returned.
C11_Witness ==
  /\ op = "fetch_player_career" /\ Ended /\ ret = "returned"
  /\ "io" \in faults /\ "interrupt" \notin faults
  /\ error_count >= 1 /\ success_count >= 1
  /\ store # start

\* C12: no fetch operation raises to its caller because a remote call
\* failed: with remote exceptions as the only failures of the invocation,
\* it returns normally.
C12_RemoteFailureContained ==
  (op \in FetchOps /\ Ended /\ faults = {"remote"}) => ret = "returned"

\* A loop in which a remote call failed, a later one succeeded, and the
\* method returned.
C12_Witness ==
  /\ op \in AppendOps \cup SeasonOps /\ Ended /\ ret = "returned"
  /\ faults = {"remote"}
  /\ \E j \in DOMAIN trace, k \in DOMAIN trace :
       /\ j < k
       /\ trace[j].ev = "call" /\ trace[j].res = "error"
       /\ trace[k].ev = "call" /\ trace[k].res = "frame"

\* C13: an operator interrupt at a remote call or at a pacing delay of a
\* fetch operation ends its remote calls, the operation returns normally,
\* and what was fetched before is in the store (fetch_pbp_data writes the
\* payloads buffered so far).
C13_Cancellation ==
  (op \in FetchOps /\ Ended /\ "interrupt" \in faults /\ "io" \notin faults)
    => /\ ret = "returned"
       /\ \A k \in DOMAIN trace :
            (trace[k].ev = "call" /\ trace[k].res = "interrupt") => k = Len(trace)
       /\ op = "fetch_pbp_data" =>
            store["game_pbp"].rows = start["game_pbp"].rows \o ServedRows(trace)

\* fetch_pbp_data interrupted at a remote call after it buffered a payload:
\* the loop is left, the buffer is written and the method returns.
C13_Witness ==
  /\ op = "fetch_pbp_data" /\ Ended /\ ret = "returned"
  /\ faults = {"interrupt"}
  /\ trace[Len(trace)].ev = "call" /\ trace[Len(trace)].res = "interrupt"
  /\ all_new_data # <<>>
  /\ store["game_pbp"].rows = start["game_pbp"].rows \o ServedRows(trace)

\* C14: in every fetch operation no two remote calls of one invocation
\* follow each other without a pacing delay between them.
C14_Pacing ==
  op \in FetchOps =>
    \A k \in DOMAIN trace :
      (k < Len(trace) /\ trace[k].ev = "call") => trace[k + 1].ev = "pause"

\* A failed call, the pacing delay, then the next call.
C14_Witness ==
  /\ op \in FetchOps
  /\ \E k \in DOMAIN trace :
       /\ k + 2 <= Len(trace)
       /\ trace[k].ev = "call" /\ trace[k].res = "error"
       /\ trace[k + 1].ev = "pause"
       /\ trace[k + 2].ev = "call"

\* The failed remote calls of the invocation before position k of the trace.
ErrorsBefore(k) ==
  Cardinality({j \in 1..(k - 1) : trace[j].ev = "call" /\ trace[j].res = "error"})

\* C15: fetch_pbp_data issues no remote call once its error count has
\* reached MAX_ERROR_TIMES, and when it has stopped on the budget (no
\* interrupt, no failed write) it returns normally with every non-empty
\* payload fetched before the stop appended to game_pbp.
C15_BudgetKeepsPartial ==
  op = "fetch_pbp_data" =>
    /\ \A k \in DOMAIN trace : trace[k].ev = "call" => ErrorsBefore(k) < MAX_ERROR_TIMES
    /\ (Ended /\ error_count >= MAX_ERROR_TIMES /\ faults = {"remote"})
         => /\ ret = "returned"
            /\ store["game_pbp"].rows = start["game_pbp"].rows \o ServedRows(trace)

\* A payload was buffered, the budget was then used up with games left in
\* the list, and the payload is in game_pbp on return.
C15_Witness ==
  /\ op = "fetch_pbp_data" /\ Ended /\ ret = "returned"
  /\ error_count >= MAX_ERROR_TIMES /\ faults = {"remote"}
  /\ idx <= Len(work)
  /\ Len(Calls) < Len(work)
  /\ all_new_data # <<>>
  /\ store # start
  /\ store["game_pbp"].rows = start["game_pbp"].rows \o ServedRows(trace)

\* The identity set handed to the operation is missing or invalid: empty, or
\* not a list of identities of the kind the operation fetches.
InvalidIdentitySet ==
  CASE op = "fetch_player_career" -> args = <<>> \/ \E k \in DOMAIN args : args[k] \notin Players
    [] op = "fetch_pbp_data" -> args = <<>> \/ \E k \in DOMAIN args : args[k] \notin Games
    [] op = "fetch_games" -> args = <<>> \/ \E k \in DOMAIN args : args[k] \notin Seasons
    [] op = "fetch_player_game_logs" -> args.player_ids = <<>> \/ args.seasons = <<>>
    [] OTHER -> FALSE

\* C16: a fetch operation invoked with a missing or invalid identity set
\* issues no remote call and reports the failure to its caller.
C16_ConfigFailFast ==
  (op \in AppendOps \cup SeasonOps /\ Ended /\ InvalidIdentitySet)
    => Calls = <<>> /\ ret = "raised"

\* fetch_games called with the string it has as default value.
C16_Witness ==
  /\ op = "fetch_games" /\ Ended /\ args = DefaultSeasons
  /\ InvalidIdentitySet
  /\ Calls = DefaultSeasons

\* A table the first non-empty write has created: it holds rows.
Written(tbl) == tbl.exists /\ tbl.rows # <<>>

\* C17: a table that held rows when an operation was entered has, at every
\* point of that operation (append write, replace write, table
\* initialisation, index read), the column set it had on entry.
C17_SchemaFixed ==
  \A t \in Tables : Written(start[t]) => (store[t].exists /\ store[t].cols = start[t].cols)

\* A replace-mode write of a frame with one more column met a table that
\* held rows, and the write went through.
C17_Witness ==
  /\ op = "_save_to_sqlite"
  /\ Ended
  /\ ret = "returned"
  /\ trace # <<>>
  /\ trace[1].if_exists = "replace"
  /\ "NEW_COL" \in trace[1].df.cols
  /\ Written(start[Target(op, args)])
  /\ store[Target(op, args)].cols # start[Target(op, args)].cols

\* The invocation has handed a non-empty payload to a write: a direct save of
\* a non-empty frame, or a remote call that served rows.
NonEmptyPayloadSeen ==
  \E k \in DOMAIN trace :
    \/ trace[k].ev = "save" /\ trace[k].df.rows # <<>>
    \/ trace[k].ev = "call" /\ trace[k].res = "frame" /\ trace[k].rows # <<>>

\* C18: a table missing when an operation was entered exists afterwards only
\* if the operation wrote a non-empty payload to it (never after an index
\* read or an empty-payload write alone), and a table that existed on entry
\* still exists.
C18_TableLifecycle ==
  \A t \in Tables :
    /\ start[t].exists => store[t].exists
    /\ (~start[t].exists /\ store[t].exists) => (t = Target(op, args) /\ NonEmptyPayloadSeen)

\* The stand-alone loader's index read has created the table it was asked
\* about.
C18_Witness ==
  /\ op = "legacy_get_existing_ids"
  /\ Ended
  /\ ~start[args].exists
  /\ store[args].exists
  /\ store[args].rows = <<>>
  /\ result = {}

\* The rows of game g in a sequence of rows.
RowsFor(rows, g) == SelectSeq(rows, LAMBDA r : r.id = g)

\* The rows the invocation has added to table t.
AddedRows(t) == SubSeq(store[t].rows, Len(start[t].rows) + 1, Len(store[t].rows))

\* C19: in fetch_games every append adds only games that game_log did not
\* hold just before it, the appends of the earlier seasons of the invocation
\* included; so the rows an invocation has added for a game are the rows of
\* one season's frame, and none are added for a game held on entry.
C19_ReadYourWrites ==
  /\ [](op = "fetch_games" =>
          \A g \in Games :
            RowsFor(AddedRows("game_log"), g) # <<>> =>
              /\ g \notin IdsOf(start["game_log"])
              /\ \E k \in DOMAIN trace :
                   /\ trace[k].ev = "call"
                   /\ trace[k].res = "frame"
                   /\ RowsFor(trace[k].rows, g) = RowsFor(AddedRows("game_log"), g))
  /\ [][(op = "fetch_games" /\ store' # store) =>
          \A k \in (Len(store["game_log"].rows) + 1)..Len(store'["game_log"].rows) :
            store'["game_log"].rows[k].id \notin IdsOf(store["game_log"])]_vars

\* Two different seasons of one invocation both returned game g1, which
\* game_log did not hold on entry, and the run ended with g1 added once.
C19_Witness ==
  /\ op = "fetch_games"
  /\ Ended
  /\ \E i, j \in DOMAIN trace :
       /\ i < j
       /\ trace[i].ev = "call" /\ trace[i].res = "frame"
       /\ trace[j].ev = "call" /\ trace[j].res = "frame"
       /\ trace[i].item # trace[j].item
       /\ RowsFor(trace[i].rows, "g1") # <<>>
       /\ RowsFor(trace[j].rows, "g1") # <<>>
  /\ "g1" \notin IdsOf(start["game_log"])
  /\ Len(RowsFor(AddedRows("game_log"), "g1")) = 1

\* C20: in fetch_player_career, fetch_games, fetch_player_game_logs and
\* fetch_pbp_data no remote call is issued once MAX_ERROR_TIMES calls of the
\* invocation have failed.
C20_CircuitBreaker ==
  op \in AppendOps \cup SeasonOps =>
    \A k \in DOMAIN trace : trace[k].ev = "call" => ErrorsBefore(k) < MAX_ERROR_TIMES

\* fetch_player_career went on to the next player after MAX_ERROR_TIMES
\* failed calls.
C20_Witness ==
  /\ op = "fetch_player_career"
  /\ Ended
  /\ ret = "returned"
  /\ error_count >= MAX_ERROR_TIMES
  /\ \E k \in DOMAIN trace : trace[k].ev = "call" /\ ErrorsBefore(k) >= MAX_ERROR_TIMES

\* The remote calls of the invocation, in order.
CallEvents == SelectSeq(trace, LAMBDA e : e.ev = "call")

\* fetch_pbp_data left its loop on the budget test, with items still to do.
StoppedEarly ==
  /\ op = "fetch_pbp_data"
  /\ pc # "loop"
  /\ idx <= Len(work)
  /\ "interrupt" \notin faults

\* The last n remote calls all failed.
LastCallsFailed(n) ==
  /\ Len(CallEvents) >= n
  /\ \A k \in (Len(CallEvents) - n + 1)..Len(CallEvents) : CallEvents[k].res = "error"

\* C21: fetch_pbp_data stops early only after max_error_times failed remote
\* calls in a row; a run in which every failure is followed by a success is
\* not stopped early.
C21_ConsecutiveBudget == StoppedEarly => LastCallsFailed(max_error_times)

\* With a budget of two, fetch_pbp_data stopped after a failure, a success
\* and a second failure, leaving the rest of the list uncalled.
C21_Witness ==
  /\ StoppedEarly
  /\ Ended
  /\ max_error_times = 2
  /\ Len(CallEvents) = 3
  /\ CallEvents[1].res = "error"
  /\ CallEvents[2].res = "frame"
  /\ CallEvents[3].res = "error"
  /\ error_count = 2

\* The (player, season) pairs in lexicographic order: every season of the
\* first player in the order given, then every season of the next player.
Pairs(player_ids, seasons) ==
  [k \in 1..(Len(player_ids) * Len(seasons)) |->
     <<player_ids[((k - 1) \div Len(seasons)) + 1], seasons[((k - 1) % Len(seasons)) + 1]>>]

\* The work items of the invocation in the caller-supplied order: the list
\* handed in without the identities stored on entry (fetch_player_career,
\* fetch_pbp_data), the seasons (fetch_games), the pairs
\* (fetch_player_game_logs).
WorkItems ==
  CASE op \in AppendOps ->
         SelectSeq(args, LAMBDA x : x \notin IdsOf(start[Target(op, args)]))
    [] op = "fetch_games" -> args
    [] op = "fetch_player_game_logs" -> Pairs(args.player_ids, args.seasons)

\* C22: the remote calls of an invocation are, in order, the first work
\* items in the caller-supplied order: nothing is reordered and no item is
\* called twice; in fetch_player_game_logs the order is the lexicographic
\* (player, season) order.
C22_ProcessingOrder ==
  op \in OrderOps =>
    /\ Len(Calls) <= Len(WorkItems)
    /\ Calls = SubSeq(WorkItems, 1, Len(Calls))

\* fetch_player_game_logs ended after calling two players over two
\* different seasons each, four calls in all.
C22_Witness ==
  /\ op = "fetch_player_game_logs"
  /\ Ended
  /\ Len(args.player_ids) = 2
  /\ args.player_ids[1] # args.player_ids[2]
  /\ Len(args.seasons) = 2
  /\ args.seasons[1] # args.seasons[2]
  /\ Len(Calls) = 4
  /\ Calls[2] = <<args.player_ids[1], args.seasons[2]>>
  /\ Calls[3] = <<args.player_ids[2], args.seasons[1]>>

\* The list names no identity twice.
NoRepeats(ids) == \A i, j \in DOMAIN ids : ids[i] = ids[j] => i = j

\* The identities whose fetch succeeded with an empty frame in the invocation
\* before.
EmptyBefore == {a[1] : a \in {b \in prev.served : b[2] = <<>>}}

\* C23: an invocation of fetch_player_career or fetch_pbp_data that follows
\* one with the same list (no identity named twice) in which something
\* failed issues no remote call for an identity whose fetch did not fail in
\* that invocation (it returned an empty frame), and none for an identity
\* whose payload is in the target table.
C23_RetryOnlyFailed ==
  (op \in AppendOps /\ NoRepeats(args) /\ prev.ret # "none" /\ ~prev.clean)
    => \A k \in DOMAIN Calls :
         /\ Calls[k] \notin EmptyBefore
         /\ Calls[k] \notin IdsOf(start[Target(op, args)])

\* fetch_player_career([p1, p2]) is run again after a run in which the call
\* for p1 failed and the call for p2 returned an empty frame: p2 is called
\* again.
C23_Witness ==
  /\ op = "fetch_player_career"
  /\ args = <<"p1", "p2">>
  /\ prev.ret = "returned"
  /\ ~prev.clean
  /\ prev.served = {<<"p2", <<>>>>}
  /\ Ended
  /\ \E k \in DOMAIN Calls : Calls[k] = "p2"

\* The remote calls of the invocation that returned a frame with rows, and
\* those that returned a frame without.
PayloadCalls ==
  {k \in DOMAIN trace : trace[k].ev = "call" /\ trace[k].res = "frame" /\ trace[k].rows # <<>>}
EmptyCalls ==
  {k \in DOMAIN trace : trace[k].ev = "call" /\ trace[k].res = "frame" /\ trace[k].rows = <<>>}
FailedCalls == {k \in DOMAIN trace : trace[k].ev = "call" /\ trace[k].res = "error"}

\* C24: in fetch_player_career every processed item is counted once, as a
\* success, as skipped-empty or as a failure; an item whose call returned
\* zero rows is neither a success nor a failure; the success count is the
\* number of items whose payload was written.
C24_OutcomeCounts ==
  op = "fetch_player_career"
    => /\ success_count <= Cardinality(PayloadCalls)
       /\ success_count + error_count = Cardinality(PayloadCalls) + Cardinality(FailedCalls)

\* fetch_player_career returned after a call that gave an empty frame:
\* nothing was written and the item is counted as a success.
C24_Witness ==
  /\ op = "fetch_player_career"
  /\ Ended
  /\ ret = "returned"
  /\ faults = {}
  /\ EmptyCalls # {}
  /\ PayloadCalls = {}
  /\ store = start
  /\ success_count = Cardinality(EmptyCalls)
  /\ success_count >= 1

\* Every identity of the list is in the target table.
AllPresent == \A k \in DOMAIN args : args[k] \in IdsOf(store[Target(op, args)])

\* From some point on nothing fails (no remote exception, no interrupt, no
\* failed INSERT) and every frame the remote serves has rows.
RemoteSucceedsFromSomePoint == <>[](faults = {} /\ EmptyCalls = {})

\* C25: when fetch_player_career or fetch_pbp_data is invoked again and
\* again with the same list and the remote calls succeed from some point on,
\* eventually every identity of the list is in the target table and stays
\* there, and the invocations from then on issue no remote call.
C25_Convergence ==
  RemoteSucceedsFromSomePoint => <>[](AllPresent /\ (pc = "idle" => Calls = <<>>))

\* An invocation on a database without the target table ended with an
\* exception before any remote call, the database as it was.
C25_Witness ==
  /\ op \in AppendOps
  /\ Ended
  /\ ret = "raised"
  /\ faults = {}
  /\ args # <<>>
  /\ ~start[Target(op, args)].exists
  /\ store = start
  /\ prev.ret = "raised"
  /\ ~AllPresent

\* C26: fetch_player_game_logs appends a row only if its Game_ID is in no
\* row of player_game_log, whichever player the stored row belongs to: a
\* table that held every Game_ID at most once on entry holds every Game_ID
\* at most once at every point of the invocation, and no added row is for a
\* game the table held on entry.
C26_TableWideGameDedup ==
  (op = "fetch_player_game_logs"
     /\ \A g \in Games : Len(RowsFor(start["player_game_log"].rows, g)) <= 1)
    => \A g \in Games :
         /\ Len(RowsFor(store["player_game_log"].rows, g)) <= 1
         /\ g \in IdsOf(start["player_game_log"]) => RowsFor(AddedRows("player_game_log"), g) = <<>>

\* The remote listed game g1 for two different players in one invocation;
\* the table holds g1 once, on the row of the player called first.
C26_Witness ==
  /\ op = "fetch_player_game_logs"
  /\ Ended
  /\ "g1" \notin IdsOf(start["player_game_log"])
  /\ \E i, j \in DOMAIN trace :
       /\ i < j
       /\ trace[i].ev = "call" /\ trace[i].res = "frame"
       /\ trace[j].ev = "call" /\ trace[j].res = "frame"
       /\ trace[i].item[1] # trace[j].item[1]
       /\ RowsFor(trace[i].rows, "g1") # <<>>
       /\ RowsFor(trace[j].rows, "g1") # <<>>
       /\ RowsFor(AddedRows("player_game_log"), "g1") = RowsFor(trace[i].rows, "g1")
  /\ Len(RowsFor(store["player_game_log"].rows, "g1")) = 1

\* ------------------------------------------------------------ the clutch analyzer
\* src/src/processors/clutch_analyzer.py.  analyze_player reads the rows of
\* game_pbp that its query returns and computes from them; in the runs of
\* this operation `args` is the call's player_id and player_name together
\* with the frame self.db.query(query) returns.
None == "None"

\* What a play-by-play row is, as far as the analyzer's filters tell rows
\* apart: a two- or three-point attempt made or missed (isFieldGoal = 1), a
\* free throw made or missed (actionType, description), or another action.
Kinds == {"made2", "miss2", "made3", "miss3", "ft_made", "ft_miss", "other"}

\* A row of the query's result (period >= 4): whose action it is, its game,
\* what it is, and whether _process_clutch_df keeps it (seconds_remaining
\* <= 300 and margin <= 5).
PbpRows == [who : Players, gameId : Games, kind : Kinds, clutch : BOOLEAN]

AnalyzeArgs ==
  [player_id : Players \cup {None}, player_name : Players \cup {None},
   df : SeqsUpTo(PbpRows, MaxPbpRows)]

\* len(df[...]) for the analyzer's row filters.
CountRows(df, kinds) == Len(SelectSeq(df, LAMBDA r : r.kind \in kinds))

\* f"{(n/d):.1%}": the quotient in tenths of a percent (no quotient of the
\* bounded counts lies halfway between two tenths); n/d raises
\* ZeroDivisionError when d = 0.
Percent(n, d) == (2000 * n + d) \div (2 * d)

\* _get_clutch_data: what it leaves in self._df, None (is_none) when neither
\* player_id nor player_name is given and the query returned rows.
GetClutchData(a) ==
  IF a.df = <<>> THEN [is_none |-> FALSE, rows |-> <<>>]
  ELSE LET processed == SelectSeq(a.df, LAMBDA r : r.clutch)
       IN IF a.player_id # None
            THEN [is_none |-> FALSE, rows |-> SelectSeq(processed, LAMBDA r : r.who = a.player_id)]
            ELSE IF a.player_name # None
                   THEN [is_none |-> FALSE, rows |-> SelectSeq(processed, LAMBDA r : r.who = a.player_name)]
                   ELSE [is_none |-> TRUE, rows |-> <<>>]

\* _calculate_clutch_shot_metrics: the dictionary it returns, as its set of
\* (key, value) pairs, or the exception of the first division by zero.
CalculateClutchShotMetrics(df) ==
  LET fga == CountRows(df, {"made2", "miss2", "made3", "miss3"})
      fgm == CountRows(df, {"made2", "made3"})
      three_pa == CountRows(df, {"made3", "miss3"})
      three_pm == CountRows(df, {"made3"})
      fta == CountRows(df, {"ft_made", "ft_miss"})
      ftm == CountRows(df, {"ft_made"})
      total_pts == (fgm - three_pm) * 2 + three_pm * 3 + ftm
      ts_pct == IF fga + fta > 0
                  THEN (200000 * total_pts + (200 * fga + 88 * fta)) \div (2 * (200 * fga + 88 * fta))
                  ELSE 0
      three_rate == IF fga > 0 THEN Percent(three_pa, fga) ELSE 0
  IN IF fga = 0 \/ three_pa = 0 \/ fta = 0
       THEN [raised |-> TRUE, metrics |-> {}]
       ELSE [raised |-> FALSE,
             metrics |-> {<<"Points", total_pts>>,
                          <<"FG%", Percent(fgm, fga)>>,
                          <<"3P%", Percent(three_pm, three_pa)>>,
                          <<"FT%", Percent(ftm, fta)>>,
                          <<"TS%", ts_pct>>,
                          <<"3P_Freq", three_rate>>,
                          <<"FGA", fga>>,
                          <<"FTA", fta>>}]

\* self._calculate_clutch_shot_distance_metrics(), called by
\* calculate_metrics and defined in none of the files at hand: it returns
\* some value or it raises.
DistanceOutcomes == {"returned", "raised"}

\* ClutchAnalyzer(db).analyze_player(player_id, player_name)
AnalyzePlayer ==
  /\ Enter("analyze_player")
  /\ LET got == GetClutchData(args)
         df == got.rows
     IN IF got.is_none \/ df = <<>>
          THEN /\ ret' = "returned"
               /\ result' = {}
               /\ faults' = {}
          ELSE LET shot == CalculateClutchShotMetrics(df)
               IN IF shot.raised
                    THEN /\ ret' = "raised"
                         /\ result' = {}
                         /\ faults' = {}
                    ELSE \E distance \in DistanceOutcomes :
                           IF distance = "raised"
                             THEN /\ ret' = "raised"
                                  /\ result' = {}
                                  /\ faults' = {"distance"}
                             ELSE /\ ret' = "returned"
                                  /\ result' = shot.metrics \cup
                                       {<<"shoot_distance", "distance">>,
                                        <<"Player", IF args.player_name # None
                                                      THEN args.player_name ELSE df[1].who>>,
                                        <<"Game_Count", Cardinality({df[k].gameId : k \in DOMAIN df})>>}
                                  /\ faults' = {}
  /\ work' = <<>>
  /\ pc' = "idle"
  /\ trace' = <<>>
  /\ UNCHANGED <<store, appended>>

\* The analyzer runs: one call, on any frame of at most MaxPbpRows rows that
\* the query returns from a game_pbp table holding those games.
InitClutch ==
  /\ op = "analyze_player"
  /\ args \in AnalyzeArgs
  /\ max_error_times = MAX_ERROR_TIMES
  /\ store = [t \in Tables |->
                IF t = "game_pbp"
                  THEN Table(RemoteCols(t), [k \in DOMAIN args.df |-> [id |-> args.df[k].gameId, k |-> 1]])
                  ELSE Bystander(t)]
  /\ InitLocals

\* ------------------------------------------------------------ C27
\* The player the call names (player_id first, as _get_clutch_data tests it)
\* and that player's clutch-time rows in the frame.
Asked == IF args.player_id # None THEN args.player_id ELSE args.player_name

ClutchRows == SelectSeq(args.df, LAMBDA r : r.clutch /\ r.who = Asked)

ValueOf(key) == {p[2] : p \in {q \in result : q[1] = key}}

\* C27: analyze_player returns a metrics dictionary without raising for every
\* player who has at least one clutch-time row, a player without field-goal,
\* three-point or free-throw attempts included (that percentage is then
\* zero), and returns the empty dictionary when the player has no
\* clutch-time row or when neither id nor name is given.  (An exception of
\* the distance-metrics method, which is not at hand, is left aside.)
C27_ClutchMetrics ==
  (op = "analyze_player" /\ Ended /\ "distance" \notin faults) =>
    IF Asked # None /\ ClutchRows # <<>>
      THEN /\ ret = "returned"
           /\ result # {}
           /\ (CountRows(ClutchRows, {"made2", "miss2", "made3", "miss3"}) = 0 => ValueOf("FG%") = {0})
           /\ (CountRows(ClutchRows, {"made3", "miss3"}) = 0 => ValueOf("3P%") = {0})
           /\ (CountRows(ClutchRows, {"ft_made", "ft_miss"}) = 0 => ValueOf("FT%") = {0})
      ELSE ret = "returned" /\ result = {}

\* A player whose only clutch-time row is a made free throw: the call raises
\* at the division by the zero field-goal attempts.
C27_Witness ==
  /\ op = "analyze_player"
  /\ Ended
  /\ Asked = "p1"
  /\ Len(ClutchRows) = 1
  /\ ClutchRows[1].kind = "ft_made"
  /\ ret = "raised"
  /\ faults = {}

\* ------------------------------------------------------------ specification
Next ==
  \/ FetchPlayerCareer
  \/ FetchPbpData
  \/ FetchGames
  \/ FetchPlayerGameLogs
  \/ FetchAllPlayers
  \/ GetExistingIdsCall
  \/ SaveToSqliteCall
  \/ LegacyGetExistingIdsCall
  \/ LegacySaveToSqliteCall
  \/ LegacyFetchPlayerCareer

Spec == Init /\ [][Next]_vars

SpecBudget == InitBudget /\ [][FetchPbpData]_vars

SpecOrder ==
  InitOrder /\ [][FetchPlayerCareer \/ FetchPbpData \/ FetchGames \/ FetchPlayerGameLogs]_vars

\* The driver invokes the operation again whenever the loader is idle, and an
\* invocation under way goes on to its next step: some step is always taken.
Resume == FetchPlayerCareer \/ FetchPbpData

SpecResume == InitResume /\ [][Resume]_vars /\ WF_vars(Resume)

SpecConsecutive == InitConsecutive /\ [][FetchPbpData]_vars

SpecClutch == InitClutch /\ [][AnalyzePlayer]_vars

====
